---- MODULE Spec2Model ----
(***************************************************************************)
(* A model of the mission store of faction-missions.py: the in-memory      *)
(* document of a script run, the session cache st.session_state["db"],     *)
(* the local file DATA_FILE and the remote worksheets "Missions" and       *)
(* "Meta", with load_db, save_db, new_mission, update_mission,             *)
(* delete_mission and the restore handler of dm_panel.                     *)
(*                                                                         *)
(* Representation.                                                         *)
(*  - A timestamp datetime.utcnow().isoformat() is a natural number; the   *)
(*    order of the numbers is the order of the ISO strings. The n-th call  *)
(*    of utcnow() returns n; 0 is a time before the program started.       *)
(*  - A uuid4 string is a positive number drawn from a counter (never      *)
(*    handed out twice); the empty string id is EmptyId; ids that only an  *)
(*    uploaded file can carry are ForeignIds.                              *)
(*  - Free text that the code strips is a sequence of characters.          *)
(*  - A JSON value is a record with a shape: "doc" is an object whose      *)
(*    "missions" is a list, "nolist" an object whose "missions" is not a   *)
(*    list, "nokey" an object without "missions", "nonobj" a JSON value    *)
(*    that is not an object; "none" stands for no value at all.            *)
(***************************************************************************)
EXTENDS Integers, Sequences, FiniteSets, TLC

\* ---------------------------------------------------------------- bounds
\* The number of calls of datetime.utcnow() in a behaviour: an operation that
\* would read the clock once more is not taken.
MaxClock == 6

Sessions == {"A", "B"}

\* ------------------------------------------------------------- constants
HEADERS == <<"id", "faction", "title", "reward", "location", "hook",
             "created_at", "updated_at", "status", "assigned_to", "notes">>

\* The six faction names (their emoji suffixes left out).
FACTIONS == {"Emerald Enclave", "Lord's Alliance", "Harpers", "Force Grey",
             "Zhentarim", "Order of the Gauntlet"}

STATUSES == {"Available", "Accepted", "Completed", "Failed"}

EmptyId == 0
ForeignIds == {101}
NoStamp == -1

VARIABLES
    clock,     \* the last value datetime.utcnow() returned (the number of calls)
    nextId,    \* the next uuid4 to be handed out
    enabled,   \* _sheets_enabled()
    file,      \* DATA_FILE
    ws,        \* worksheet "Missions": its first row and the rows below it
    meta,      \* worksheet "Meta": the updated_at of row 2, or NoStamp
    pc,        \* per session: "start" (a run begins) or "loaded" (load_db returned)
    mem,       \* per session: the db object of the current script run
    cache,     \* per session: st.session_state["db"]
    ret        \* per session: what the last operation did and returned

vars == <<clock, nextId, enabled, file, ws, meta, pc, mem, cache, ret>>

\* ------------------------------------------------------------ JSON values
NoDoc == [shape |-> "none", version |-> 0, updated_at |-> NoStamp, missions |-> <<>>]

Doc(version, updated_at, missions) ==
    [shape |-> "doc", version |-> version, updated_at |-> updated_at, missions |-> missions]

IsDict(d) == d.shape \in {"doc", "nolist", "nokey"}
HasMissionsKey(d) == d.shape \in {"doc", "nolist"}
IsDoc(d) == d.shape = "doc"

_empty_db(now) == Doc(1, now, <<>>)

\* The members of a dict as json.dumps writes them: the pairs of a key and its
\* value, in the order of the keys.
Members(d, keys) == [i \in 1..Len(keys) |-> <<keys[i], d[keys[i]]>>]

\* The keys of a document, in the order of lines 96 and 114.
DocKeys == <<"version", "updated_at", "missions">>

\* json.dumps writing the missions last to first.
json_dumps_reversed(d) ==
    [shape |-> d.shape,
     members |->
        IF IsDoc(d)
        THEN Members([d EXCEPT !.missions =
                        [i \in 1..Len(d.missions) |->
                            Members(d.missions[Len(d.missions) + 1 - i], HEADERS)]],
                     DocKeys)
        ELSE Members(d, DocKeys)]

\* json.dumps(d): the text, as the members of the object, a mission of the
\* list being the members of its object.
json_dumps(d) ==
    [shape |-> d.shape,
     members |->
        IF IsDoc(d)
        THEN Members([d EXCEPT !.missions =
                        [i \in 1..Len(d.missions) |-> Members(d.missions[i], HEADERS)]],
                     DocKeys)
        ELSE Members(d, DocKeys)]

\* The dict json.loads builds of the members of an object: of two members
\* with one key the later one counts.
Object(members) ==
    [k \in {members[i][1] : i \in 1..Len(members)} |->
        members[CHOOSE i \in 1..Len(members) :
                    /\ members[i][1] = k
                    /\ \A j \in 1..Len(members) : members[j][1] = k => j <= i][2]]

\* json.loads(text) of a text that json.dumps wrote.
json_loads(text) ==
    LET o == Object(text.members) IN
    [shape |-> text.shape,
     version |-> o.version,
     updated_at |-> o.updated_at,
     missions |-> IF text.shape = "doc"
                  THEN [i \in 1..Len(o.missions) |-> Object(o.missions[i])]
                  ELSE o.missions]

\* A file: absent, a text that is not JSON, or a JSON text, which is held as
\* the value json.loads yields for it. Text(t) is the file with the text t,
\* Dumps(d) the file after write_text(json.dumps(d, ...)): its text is read
\* back as d (C14 computes json_loads(json_dumps(d)) for the documents of the
\* store).
AbsentFile == [kind |-> "absent", val |-> NoDoc]
GarbageFile == [kind |-> "garbage", val |-> NoDoc]
Text(t) == [kind |-> "json", val |-> json_loads(t)]
Dumps(d) == [kind |-> "json", val |-> d]
Parses(f) == f.kind = "json"
Loads(f) == f.val

Ids(d) == {d.missions[i].id : i \in 1..Len(d.missions)}

\* ------------------------------------------------------------------ text
RECURSIVE LStrip(_)
LStrip(t) == IF t # <<>> /\ Head(t) = " " THEN LStrip(Tail(t)) ELSE t

RECURSIVE RStrip(_)
RStrip(t) == IF t # <<>> /\ t[Len(t)] = " " THEN RStrip(SubSeq(t, 1, Len(t) - 1)) ELSE t

Strip(t) == RStrip(LStrip(t))

\* -------------------------------------------------------------- missions
\* new_mission: uuid is the uuid4 drawn, now the utcnow() of line 151.
new_mission(faction, title, reward, location, hook, now, uuid) ==
    [id |-> uuid,
     faction |-> faction,
     title |-> Strip(title),
     reward |-> Strip(reward),
     location |-> Strip(location),
     hook |-> Strip(hook),
     created_at |-> now,
     updated_at |-> now,
     status |-> "Available",
     assigned_to |-> "",
     notes |-> ""]

\* The keyword arguments of update_mission: a function from the keys passed to
\* the value passed, None being <<>> and a value v being <<v>>.
None == <<>>
Some(v) == <<v>>
IsNone(x) == Len(x) = 0

\* ApplyFields without the test of line 170: a None clears the field.
ApplyFieldsClearing(m, fields, now) ==
    [k \in DOMAIN m |->
        IF k = "updated_at" THEN now
        ELSE IF k \in DOMAIN fields
             THEN IF IsNone(fields[k]) THEN "" ELSE fields[k][1]
        ELSE m[k]]

\* Lines 169-172: the matching mission m after the loop over fields.items()
\* and the stamp.
ApplyFields(m, fields, now) ==
    [k \in DOMAIN m |->
        IF k = "updated_at" THEN now
        ELSE IF k \in DOMAIN fields /\ ~IsNone(fields[k]) THEN fields[k][1]
        ELSE m[k]]

\* FirstWithId falling back to the last mission when no mission has the id.
FirstWithIdOrLast(missions, id) ==
    IF \E i \in 1..Len(missions) : missions[i].id = id
    THEN CHOOSE i \in 1..Len(missions) :
            /\ missions[i].id = id
            /\ \A j \in 1..(i - 1) : missions[j].id # id
    ELSE Len(missions)

\* The index of the first mission of the list with this id (0: there is none):
\* where the loop of update_mission stops.
FirstWithId(missions, id) ==
    IF \E i \in 1..Len(missions) : missions[i].id = id
    THEN CHOOSE i \in 1..Len(missions) :
            /\ missions[i].id = id
            /\ \A j \in 1..(i - 1) : missions[j].id # id
    ELSE 0

\* Line 179: the list comprehension of delete_mission.
WithoutId(missions, id) == SelectSeq(missions, LAMBDA m : m.id # id)

\* ------------------------------------------------------- remote worksheets
HeaderSet == {HEADERS[i] : i \in 1..Len(HEADERS)}

WsEmpty == [first |-> "empty", rows |-> <<>>]
WsCleared == [first |-> "headers", rows |-> <<>>]

\* str(cell): every cell the model holds is a string already (a timestamp and
\* an id stand for their strings), and str of a string is that string.
Str(v) == v

\* Line 101: the row written for a mission.
RowOf(m) == [h \in HeaderSet |-> IF h \in DOMAIN m THEN m[h] ELSE ""]

RowsOf(missions) == [i \in 1..Len(missions) |-> RowOf(missions[i])]

\* Lines 83-87: the missions read from the rows; nid is the next uuid4.
RECURSIVE FromRows(_, _)
FromRows(rows, nid) ==
    IF rows = <<>> THEN <<>>
    ELSE LET r == Head(rows)
             m == [k \in HeaderSet |-> Str(r[k])]
             fresh == m.id = EmptyId
         IN  <<[m EXCEPT !.id = IF fresh THEN nid ELSE m.id]>>
             \o FromRows(Tail(rows), IF fresh THEN nid + 1 ELSE nid)

EmptyIdCount(rows) == Cardinality({i \in 1..Len(rows) : rows[i].id = EmptyId})

\* The calls of the remote service that may throw, by the call that throws;
\* "none": no call throws.
LoadFail == {"none", "open", "ensure_update", "get_all_records", "meta_get"}
SaveFail == {"none", "open", "ensure_update", "clear", "update", "resize",
             "meta_clear", "meta_update"}

\* _open_sheet whose _ensure_headers rewrites the first row and leaves the
\* rows below it.
_open_sheet_keeping(w, fail) ==
    IF fail = "open" THEN [ws |-> w, threw |-> TRUE]
    ELSE IF w.first = "headers" THEN [ws |-> w, threw |-> FALSE]
    ELSE IF fail = "ensure_update" THEN [ws |-> w, threw |-> TRUE]
    ELSE [ws |-> [first |-> "headers", rows |-> w.rows], threw |-> FALSE]

\* _open_sheet with _ensure_headers: the worksheet afterwards and whether the
\* call threw ("open": the client, the spreadsheet or a worksheet could not be
\* opened; "ensure_update": ws.update of line 74 threw after ws.clear).
_open_sheet(w, fail) ==
    IF fail = "open" THEN [ws |-> w, threw |-> TRUE]
    ELSE IF w.first = "headers" THEN [ws |-> w, threw |-> FALSE]
    ELSE IF fail = "ensure_update" THEN [ws |-> WsEmpty, threw |-> TRUE]
    ELSE [ws |-> WsCleared, threw |-> FALSE]

_sheets_load_db(w, mt, fail, now, nid) ==
    LET o == _open_sheet(w, fail) IN
    IF o.threw \/ fail = "get_all_records"
    THEN [ws |-> o.ws, threw |-> TRUE, data |-> NoDoc, nextId |-> nid]
    ELSE [ws |-> o.ws, threw |-> FALSE,
          data |-> Doc(1, IF fail = "meta_get" \/ mt = NoStamp THEN now ELSE mt,
                       FromRows(o.ws.rows, nid)),
          nextId |-> nid + EmptyIdCount(o.ws.rows)]

_sheets_save_db(data, w, mt, fail) ==
    LET o == _open_sheet(w, fail)
        rows == IF IsDoc(data) THEN RowsOf(data.missions) ELSE <<>>
        written == [first |-> "headers", rows |-> rows]
    IN  IF o.threw THEN [ws |-> o.ws, meta |-> mt, threw |-> TRUE]
        \* line 101 over a "missions" that is no list: TypeError
        ELSE IF data.shape = "nolist" THEN [ws |-> o.ws, meta |-> mt, threw |-> TRUE]
        ELSE IF fail = "clear" THEN [ws |-> o.ws, meta |-> mt, threw |-> TRUE]
        ELSE IF fail = "update" THEN [ws |-> WsEmpty, meta |-> mt, threw |-> TRUE]
        ELSE IF fail \in {"resize", "meta_clear"}
             THEN [ws |-> written, meta |-> mt, threw |-> TRUE]
        ELSE IF fail = "meta_update"
             THEN [ws |-> written, meta |-> NoStamp, threw |-> TRUE]
        ELSE [ws |-> written, meta |-> data.updated_at, threw |-> FALSE]

\* The points of DATA_FILE.write_text (line 147) at which the process may
\* die: before the file is opened, after it was opened for writing (which
\* empties it) and before the whole text is in it, and after the text is in
\* it.
CrashFail == {"crash_before_write", "crash_in_write", "crash_after_write"}

\* Whether the run of the remote call reaches the call that `fail` names.
LoadReaches(fail, w) ==
    fail = "ensure_update" => w.first # "headers"

SaveReaches(fail, w, data) ==
    /\ fail = "ensure_update" => w.first # "headers"
    /\ fail \in {"clear", "update", "resize", "meta_clear", "meta_update"}
          => data.shape # "nolist"
    /\ fail = "resize" => (IsDoc(data) /\ data.missions # <<>>)

\* ------------------------------------------------------------------ store
\* Lines 127-135: the local path of load_db.
load_local(f, now) ==
    IF f.kind # "absent"
    THEN IF Parses(f) THEN Loads(f) ELSE _empty_db(now)
    ELSE _empty_db(now)

\* load_db returning the cached document when there is one.
load_db_cache_first(s, fail, now) ==
    LET r == _sheets_load_db(ws, meta, fail, now, nextId) IN
    IF cache[s] # NoDoc
    THEN [data |-> cache[s], cache |-> cache[s], file |-> file, ws |-> ws,
          nextId |-> nextId, clock |-> clock,
          exc |-> "none", rr |-> "skip", rw |-> "skip", lr |-> FALSE, lw |-> FALSE]
    ELSE IF enabled /\ ~r.threw
    THEN [data |-> r.data, cache |-> r.data, file |-> Dumps(r.data), ws |-> r.ws,
          nextId |-> r.nextId, clock |-> now,
          exc |-> "none", rr |-> "ok", rw |-> "skip", lr |-> FALSE, lw |-> TRUE]
    ELSE LET data == load_local(file, now) IN
         [data |-> data, cache |-> data, file |-> file,
          ws |-> IF enabled THEN r.ws ELSE ws,
          nextId |-> nextId,
          clock |-> IF file.kind # "absent" /\ Parses(file) THEN clock ELSE now,
          exc |-> "none",
          rr |-> IF enabled THEN "throw" ELSE "skip", rw |-> "skip",
          lr |-> TRUE, lw |-> FALSE]

\* load_db for session s: the value returned (and put in the cache), the state
\* of the file, of the worksheet and of the uuid counter afterwards, the
\* exception that leaves the function ("none": it returns), and what was read
\* and written (rr: the remote read was skipped, went through or threw).
load_db(s, fail, now) ==
    LET r == _sheets_load_db(ws, meta, fail, now, nextId) IN
    IF enabled /\ ~r.threw
    THEN [data |-> r.data, cache |-> r.data, file |-> Dumps(r.data), ws |-> r.ws,
          nextId |-> r.nextId, clock |-> now,
          exc |-> "none", rr |-> "ok", rw |-> "skip", lr |-> FALSE, lw |-> TRUE]
    ELSE LET data == load_local(file, now) IN
         [data |-> data, cache |-> data, file |-> file,
          ws |-> IF enabled THEN r.ws ELSE ws,
          nextId |-> nextId,
          clock |-> IF file.kind # "absent" /\ Parses(file) THEN clock ELSE now,
          exc |-> "none",
          rr |-> IF enabled THEN "throw" ELSE "skip", rw |-> "skip",
          lr |-> TRUE, lw |-> FALSE]

\* save_db without the try of lines 142-145: the remote exception leaves the
\* function before the local write.
save_db_uncaught(s, data, fail, now) ==
    LET stamped == [data EXCEPT !.updated_at = now]
        r == _sheets_save_db(stamped, ws, meta, fail)
    IN  IF enabled /\ r.threw
        THEN [data |-> stamped, cache |-> cache[s], file |-> file,
              ws |-> r.ws, meta |-> r.meta,
              exc |-> "remote", rr |-> "skip", rw |-> "throw",
              lr |-> FALSE, lw |-> FALSE]
        ELSE [data |-> stamped, cache |-> stamped, file |-> Dumps(stamped),
              ws |-> IF enabled THEN r.ws ELSE ws,
              meta |-> IF enabled THEN r.meta ELSE meta,
              exc |-> "none", rr |-> "skip",
              rw |-> IF ~enabled THEN "skip" ELSE "ok",
              lr |-> FALSE, lw |-> TRUE]

\* save_db refusing to overwrite a file that was stamped after the snapshot
\* it is given was (an optimistic concurrency check).
save_db_checked(s, data, fail, now) ==
    LET stamped == [data EXCEPT !.updated_at = now]
        r == _sheets_save_db(stamped, ws, meta, fail)
    IN  IF file.kind = "json" /\ file.val.updated_at > data.updated_at
        THEN [data |-> data, cache |-> cache[s], file |-> file, ws |-> ws, meta |-> meta,
              exc |-> "conflict", rr |-> "skip", rw |-> "skip",
              lr |-> TRUE, lw |-> FALSE]
        ELSE [data |-> stamped, cache |-> stamped, file |-> Dumps(stamped),
              ws |-> IF enabled THEN r.ws ELSE ws,
              meta |-> IF enabled THEN r.meta ELSE meta,
              exc |-> "none", rr |-> "skip",
              rw |-> IF ~enabled THEN "skip" ELSE IF r.threw THEN "throw" ELSE "ok",
              lr |-> FALSE, lw |-> TRUE]

\* save_db without line 148: the session cache keeps what it held.
save_db_stale_cache(s, data, fail, now) ==
    LET stamped == [data EXCEPT !.updated_at = now]
        r == _sheets_save_db(stamped, ws, meta, fail)
    IN  [data |-> stamped, cache |-> cache[s], file |-> Dumps(stamped),
         ws |-> IF enabled THEN r.ws ELSE ws,
         meta |-> IF enabled THEN r.meta ELSE meta,
         exc |-> "none", rr |-> "skip",
         rw |-> IF ~enabled THEN "skip" ELSE IF r.threw THEN "throw" ELSE "ok",
         lr |-> FALSE, lw |-> TRUE]

\* save_db keeping the missions the cache holds in front of those it is given
\* (a merge).
save_db_merging(s, data, fail, now) ==
    LET merged == IF IsDoc(data) /\ IsDoc(cache[s])
                  THEN [data EXCEPT !.missions = cache[s].missions \o @]
                  ELSE data
        stamped == [merged EXCEPT !.updated_at = now]
        r == _sheets_save_db(stamped, ws, meta, fail)
    IN  [data |-> stamped, cache |-> stamped, file |-> Dumps(stamped),
         ws |-> IF enabled THEN r.ws ELSE ws,
         meta |-> IF enabled THEN r.meta ELSE meta,
         exc |-> "none", rr |-> "skip",
         rw |-> IF ~enabled THEN "skip" ELSE IF r.threw THEN "throw" ELSE "ok",
         lr |-> FALSE, lw |-> TRUE]

\* save_db(data) for session s: data is a dict. The dict after line 140, the
\* file, the worksheets and the cache afterwards, the exception that leaves the
\* function ("crash": the process died), and what was written (rw: as rr
\* above).
save_db(s, data, fail, now) ==
    LET stamped == [data EXCEPT !.updated_at = now]
        r == _sheets_save_db(stamped, ws, meta, fail)
    IN  IF fail \in CrashFail
        THEN \* the process dies in line 147: the session state is gone
             [data |-> NoDoc, cache |-> NoDoc,
              file |-> IF fail = "crash_before_write" THEN file
                       ELSE IF fail = "crash_in_write" THEN GarbageFile
                       ELSE Dumps(stamped),
              ws |-> IF enabled THEN r.ws ELSE ws,
              meta |-> IF enabled THEN r.meta ELSE meta,
              exc |-> "crash", rr |-> "skip",
              rw |-> IF ~enabled THEN "skip" ELSE IF r.threw THEN "throw" ELSE "ok",
              lr |-> FALSE, lw |-> fail # "crash_before_write"]
        ELSE
        [data |-> stamped, cache |-> stamped, file |-> Dumps(stamped),
         ws |-> IF enabled THEN r.ws ELSE ws,
         meta |-> IF enabled THEN r.meta ELSE meta,
         exc |-> "none", rr |-> "skip",
         rw |-> IF ~enabled THEN "skip" ELSE IF r.threw THEN "throw" ELSE "ok",
         lr |-> FALSE, lw |-> TRUE]

\* What an operation reports: the operation, its result (load: TRUE; create:
\* TRUE; update, delete: the boolean returned; import: whether the file was
\* restored), the exception that reached the caller, the remote read and the
\* remote write (skipped, gone through, thrown), whether the local file was
\* read and written, and the arguments: the id passed (create: the id of the
\* mission made), the keyword arguments (create: the form's faction and
\* title; import: the uploaded file), the shape of the uploaded value.
Ret(op, ok, r, id, fields, shape) ==
    [op |-> op, ok |-> ok /\ r.exc # "crash", exc |-> r.exc, rr |-> r.rr, rw |-> r.rw, lr |-> r.lr,
     lw |-> r.lw, id |-> id, fields |-> fields, shape |-> shape]

NoIO == [exc |-> "none", rr |-> "skip", rw |-> "skip", lr |-> FALSE, lw |-> FALSE]
NoFields == <<>>

NoRet == Ret("none", FALSE, NoIO, EmptyId, NoFields, "")

FailsFor(set) == IF enabled THEN set ELSE {"none"}

\* ---------------------------------------------------------------- actions
\* main, line 503: a script run of session s begins with load_db().
Load(s, fail) ==
    /\ pc[s] = "start"
    /\ fail \in FailsFor(LoadFail)
    /\ LoadReaches(fail, ws)
    /\ LET r == load_db(s, fail, clock + 1) IN
         /\ r.clock <= MaxClock
         /\ clock' = r.clock
         /\ nextId' = r.nextId
         /\ file' = r.file
         /\ ws' = r.ws
         /\ mem' = [mem EXCEPT ![s] = r.data]
         /\ cache' = [cache EXCEPT ![s] = r.cache]
         /\ ret' = [ret EXCEPT ![s] =
                      Ret("load", TRUE, r, EmptyId, NoFields, "")]
    /\ pc' = [pc EXCEPT ![s] = "loaded"]
    /\ UNCHANGED <<enabled, meta>>

\* A run that ends without a mutation (View, Back: st.rerun(), or the script
\* reaching its end).
Rerun(s) ==
    /\ pc[s] = "loaded"
    /\ pc' = [pc EXCEPT ![s] = "start"]
    /\ UNCHANGED <<clock, nextId, enabled, file, ws, meta, mem, cache, ret>>

\* The state after save_db returned r at time t in session s, the run's db
\* being db afterwards; the run ends (st.rerun()).
Saved(s, r, db, t) ==
    /\ clock' = t
    /\ file' = r.file
    /\ ws' = r.ws
    /\ meta' = r.meta
    /\ mem' = [mem EXCEPT ![s] = db]
    /\ cache' = [cache EXCEPT ![s] = r.cache]
    /\ pc' = [pc EXCEPT ![s] = "start"]

\* The state after a handler that saved nothing; the run ends.
NotSaved(s) ==
    /\ pc' = [pc EXCEPT ![s] = "start"]
    /\ UNCHANGED <<file, ws, meta, mem, cache>>

\* An exception that is not the remote service's reached the caller.
OtherExc == [NoIO EXCEPT !.exc = "other"]

\* The "Add Mission" button that is never disabled.
AddMissionNeverDisabled(title) == FALSE

\* Line 370: disabled=not title.strip().
AddMissionDisabled(title) == Strip(title) = <<>>

\* What the "Add Mission" form holds when the run renders it.
Form(faction, title) == [faction |-> faction, title |-> title]

\* dm_panel, lines 363-373: the "Add Mission" form. The faction comes from the
\* select box over FACTIONS; with a title that strips to empty the button is
\* disabled, st.button returns False and the run ends with nothing done.
Create(s, faction, title, reward, location, hook, fail) ==
    /\ pc[s] = "loaded"
    /\ faction \in FACTIONS
    /\ UNCHANGED enabled
    /\ IF AddMissionDisabled(title)
       THEN /\ fail = "none"
            /\ ret' = [ret EXCEPT ![s] =
                         Ret("create", FALSE, NoIO, EmptyId, Form(faction, title), "")]
            /\ UNCHANGED <<clock, nextId>>
            /\ NotSaved(s)
       ELSE /\ nextId' = nextId + 1
            /\ IF IsDoc(mem[s])
               THEN /\ fail \in FailsFor(SaveFail) \cup CrashFail
                    /\ clock + 2 <= MaxClock
                    /\ LET m == new_mission(faction, title, reward, location, hook,
                                            clock + 1, nextId)
                           db == [mem[s] EXCEPT !.missions = Append(@, m)]
                           r == save_db(s, db, fail, clock + 2)
                       IN  /\ SaveReaches(fail, ws, db)
                           /\ Saved(s, r, r.data, clock + 2)
                           /\ ret' = [ret EXCEPT ![s] =
                                        Ret("create", TRUE, r, m.id, Form(faction, title), "")]
               ELSE \* db["missions"].append on a db without a missions list, after
                    \* new_mission read the clock
                    /\ fail = "none"
                    /\ clock + 1 <= MaxClock
                    /\ clock' = clock + 1
                    /\ ret' = [ret EXCEPT ![s] =
                                 Ret("create", FALSE, OtherExc, EmptyId, Form(faction, title), "")]
                    /\ NotSaved(s)

\* update_mission(db, mission_id, **fields) and the st.rerun() after it.
Update(s, id, fields, fail) ==
    /\ pc[s] = "loaded"
    /\ UNCHANGED <<nextId, enabled>>
    /\ IF IsDoc(mem[s])
       THEN LET i == FirstWithId(mem[s].missions, id) IN
            IF i # 0
            THEN /\ fail \in FailsFor(SaveFail) \cup CrashFail
                 /\ clock + 2 <= MaxClock
                 /\ LET m == ApplyFields(mem[s].missions[i], fields, clock + 1)
                        db == [mem[s] EXCEPT !.missions[i] = m]
                        r == save_db(s, db, fail, clock + 2)
                    IN  /\ SaveReaches(fail, ws, db)
                        /\ Saved(s, r, r.data, clock + 2)
                        /\ ret' = [ret EXCEPT ![s] =
                                     Ret("update", TRUE, r, id, fields, "")]
            ELSE /\ fail = "none"
                 /\ ret' = [ret EXCEPT ![s] = Ret("update", FALSE, NoIO, id, fields, "")]
                 /\ UNCHANGED clock
                 /\ NotSaved(s)
       ELSE \* db["missions"] is no list to loop over
            /\ fail = "none"
            /\ ret' = [ret EXCEPT ![s] = Ret("update", FALSE, OtherExc, id, fields, "")]
            /\ UNCHANGED clock
            /\ NotSaved(s)

\* delete_mission(db, mission_id) and the end of the run.
Delete(s, id, fail) ==
    /\ pc[s] = "loaded"
    /\ UNCHANGED <<nextId, enabled>>
    /\ IF IsDoc(mem[s])
       THEN LET before == Len(mem[s].missions)
                db == [mem[s] EXCEPT !.missions = WithoutId(@, id)]
            IN  IF Len(db.missions) # before
                THEN /\ fail \in FailsFor(SaveFail) \cup CrashFail
                     /\ SaveReaches(fail, ws, db)
                     /\ clock + 1 <= MaxClock
                     /\ LET r == save_db(s, db, fail, clock + 1) IN
                          /\ Saved(s, r, r.data, clock + 1)
                          /\ ret' = [ret EXCEPT ![s] =
                                       Ret("delete", TRUE, r, id, NoFields, "")]
                ELSE /\ fail = "none"
                     /\ ret' = [ret EXCEPT ![s] = Ret("delete", FALSE, NoIO, id, NoFields, "")]
                     /\ UNCHANGED clock
                     /\ NotSaved(s)
       ELSE \* len(db["missions"]) of a db without a missions list
            /\ fail = "none"
            /\ ret' = [ret EXCEPT ![s] = Ret("delete", FALSE, OtherExc, id, NoFields, "")]
            /\ UNCHANGED clock
            /\ NotSaved(s)

\* The shape of an uploaded file's value ("garbage": it is not JSON).
ShapeOf(uploaded) == IF Parses(uploaded) THEN Loads(uploaded).shape ELSE "garbage"

\* What the file uploader holds when the run reads it.
File(uploaded) == [uploaded |-> uploaded]

\* dm_panel, lines 382-391: the uploaded file is restored.
Import(s, uploaded, fail) ==
    /\ pc[s] = "loaded"
    /\ UNCHANGED <<nextId, enabled>>
    /\ IF Parses(uploaded) /\ IsDict(Loads(uploaded)) /\ HasMissionsKey(Loads(uploaded))
       THEN /\ fail \in FailsFor(SaveFail) \cup CrashFail
            /\ SaveReaches(fail, ws, Loads(uploaded))
            /\ clock + 1 <= MaxClock
            /\ LET r == save_db(s, Loads(uploaded), fail, clock + 1) IN
                 /\ Saved(s, r, mem[s], clock + 1)
                 /\ ret' = [ret EXCEPT ![s] =
                              Ret("import", TRUE, r, EmptyId, File(uploaded),
                                  ShapeOf(uploaded))]
       ELSE /\ fail = "none"
            /\ ret' = [ret EXCEPT ![s] =
                         Ret("import", FALSE, NoIO, EmptyId, File(uploaded),
                             ShapeOf(uploaded))]
            /\ UNCHANGED clock
            /\ NotSaved(s)

\* ----------------------------------------------------------------- inputs
\* A row of an older sheet, without an id (the rows line 86 guards against).
LegacyRow ==
    [id |-> EmptyId, faction |-> "Harpers", title |-> <<"o">>, reward |-> <<>>,
     location |-> <<>>, hook |-> <<>>, created_at |-> 0, updated_at |-> 0,
     status |-> "Available", assigned_to |-> "", notes |-> ""]

\* A mission of an uploaded file.
Uploaded(id, title, status) ==
    [id |-> id, faction |-> "Xanathar Guild", title |-> title, reward |-> <<>>,
     location |-> <<>>, hook |-> <<>>, created_at |-> 0, updated_at |-> 0,
     status |-> status, assigned_to |-> "Durnan", notes |-> ""]

\* The spreadsheet at the start, "Missions" and "Meta": new and empty; a row
\* below a first row that is not HEADERS, and a row below HEADERS, both saved
\* at time 0.
RemoteInit ==
    {[ws |-> WsEmpty, meta |-> NoStamp],
     [ws |-> [first |-> "other", rows |-> <<LegacyRow>>], meta |-> 0],
     [ws |-> [first |-> "headers", rows |-> <<LegacyRow>>], meta |-> 0]}

Factions == {"Harpers"}
Titles == {<<" ", "M", " ">>, <<" ">>}
Rewards == {<<"g">>}
Locations == {<<>>}
Hooks == {<<"h", " ">>}

\* The keyword arguments the callers pass (lines 317-323, 349), two of them
\* with a None.
FieldSets ==
    {[status |-> Some("Accepted")],
     [status |-> Some("Completed"), assigned_to |-> Some("Mirt"), notes |-> None],
     [status |-> Some("Failed"), assigned_to |-> None, notes |-> Some("n")]}

\* The ids passed: those of the run's db and one that no mission has.
MissingIds == {999}

IdInputs(s) == Ids(mem[s]) \cup MissingIds

\* The files uploaded: not JSON; a JSON list; {"foo": 1}; {"missions": 5};
\* {"missions": []}; a document with two missions of one id; and the export of
\* the run's db (line 379).
NotJson == GarbageFile
JsonList == Dumps([NoDoc EXCEPT !.shape = "nonobj"])
JsonFoo == Dumps([NoDoc EXCEPT !.shape = "nokey"])
JsonMissionsNoList == Dumps([NoDoc EXCEPT !.shape = "nolist"])
JsonBare == Dumps([NoDoc EXCEPT !.shape = "doc"])
JsonTwins ==
    Dumps(Doc(1, 0, <<Uploaded(101, <<"x">>, "Available"),
                      Uploaded(101, <<"y">>, "Cancelled")>>))

\* Lines 379-380: the text that "Download JSON" hands out, as the file the
\* uploader is given back.
Export(s) == Text(json_dumps(mem[s]))

Uploads(s) ==
    {NotJson, JsonList, JsonFoo, JsonMissionsNoList, JsonBare, JsonTwins, Export(s)}

\* ---------------------------------------------------------- specification
Init ==
    /\ clock = 0
    /\ nextId = 1
    /\ enabled \in BOOLEAN
    /\ file = AbsentFile
    /\ \E r \in (IF enabled THEN RemoteInit ELSE {[ws |-> WsEmpty, meta |-> NoStamp]}) :
         /\ ws = r.ws
         /\ meta = r.meta
    /\ pc = [s \in Sessions |-> "start"]
    /\ mem = [s \in Sessions |-> NoDoc]
    /\ cache = [s \in Sessions |-> NoDoc]
    /\ ret = [s \in Sessions |-> NoRet]

Step(s) ==
    \/ \E fail \in LoadFail : Load(s, fail)
    \/ Rerun(s)
    \/ \E faction \in Factions, title \in Titles, reward \in Rewards,
          location \in Locations, hook \in Hooks, fail \in SaveFail :
          Create(s, faction, title, reward, location, hook, fail)
    \/ \E id \in IdInputs(s), fields \in FieldSets, fail \in SaveFail :
          Update(s, id, fields, fail)
    \/ \E id \in IdInputs(s), fail \in SaveFail : Delete(s, id, fail)
    \/ \E uploaded \in Uploads(s), fail \in SaveFail : Import(s, uploaded, fail)

\* One session.
Next == Step("A")

Spec == Init /\ [][Next]_vars

\* Two sessions of the one server process, their runs interleaved; the remote
\* service does not throw and nothing is uploaded.
Step2(s) ==
    \/ Load(s, "none")
    \/ Rerun(s)
    \/ \E faction \in Factions, title \in Titles, reward \in Rewards,
          location \in Locations, hook \in Hooks :
          Create(s, faction, title, reward, location, hook, "none")
    \/ \E id \in IdInputs(s), fields \in FieldSets : Update(s, id, fields, "none")
    \/ \E id \in IdInputs(s) : Delete(s, id, "none")

Next2 == \E s \in Sessions : Step2(s)

Spec2 == Init /\ [][Next2]_vars

\* One session on the local backend alone, the process dying in the local
\* write of a mutation: every session starts anew.
InitCrash == Init /\ ~enabled

StepCrash(s) ==
    \/ Step(s)
    \/ \E faction \in Factions, title \in Titles, reward \in Rewards,
          location \in Locations, hook \in Hooks, fail \in CrashFail :
          Create(s, faction, title, reward, location, hook, fail)
    \/ \E id \in IdInputs(s), fields \in FieldSets, fail \in CrashFail :
          Update(s, id, fields, fail)
    \/ \E id \in IdInputs(s), fail \in CrashFail : Delete(s, id, fail)
    \/ \E uploaded \in Uploads(s), fail \in CrashFail : Import(s, uploaded, fail)

NextCrash == StepCrash("A")

SpecCrash == InitCrash /\ [][NextCrash]_vars

\* ----------------------------------------------------------------- claims
LoadStep(s) == pc[s] = "start" /\ pc'[s] = "loaded"

\* A handler of session s ran (after load_db, ret[s].op is "load"): ret'[s]
\* tells which.
HandlerStep(s, ops) ==
    pc[s] = "loaded" /\ pc'[s] = "start" /\ ret'[s].op \in ops

Mutations == {"create", "update", "delete", "import"}

EmptyDocument(d) == IsDoc(d) /\ d.version = 1 /\ d.missions = <<>>

\* C1. With the remote backend enabled, no exception of the remote service
\* reaches the caller; a load whose remote read threw returns what the local
\* file holds (the empty document when it holds none) and caches it; a
\* mutation whose remote write threw is written to the local file and to the
\* cache and completes.
C1_Fallback ==
    \A s \in Sessions :
        /\ ret[s].exc # "remote"
        /\ (ret[s].op = "load" /\ ret[s].rr = "throw") =>
              /\ ret[s].exc = "none"
              /\ ret[s].lr
              /\ cache[s] = mem[s]
              /\ IF file.kind = "json" THEN mem[s] = file.val
                 ELSE EmptyDocument(mem[s])
        /\ (ret[s].op \in Mutations /\ ret[s].rw = "throw") =>
              /\ ret[s].exc = "none"
              /\ ret[s].ok
              /\ ret[s].lw
              /\ file = [kind |-> "json", val |-> cache[s]]
              /\ ret[s].op # "import" => mem[s] = cache[s]

C1_Witness ==
    \E s \in Sessions :
        /\ enabled
        /\ ret[s].op = "update" /\ ret[s].rw = "throw" /\ ret[s].ok
        /\ file.val.missions # <<>>
        /\ ws.rows = <<>>

\* C2 as claimed. Whenever the session cache holds a document, load() returns
\* it and reads neither backend.
C2_CacheFirst ==
    [][\A s \in Sessions :
          (LoadStep(s) /\ cache[s] # NoDoc) =>
              /\ mem'[s] = cache[s]
              /\ ret'[s].rr = "skip"
              /\ ~ret'[s].lr]_vars

\* C2 as amended. load() never consults the cache: every load reads a
\* backend, the remote one when it is enabled and does not throw and the
\* local file otherwise, returns what it read and puts it in the cache.
C2_AlwaysReads ==
    [][\A s \in Sessions :
          LoadStep(s) =>
              /\ ret'[s].op = "load"
              /\ ret'[s].rr = "ok" \/ ret'[s].lr
              /\ cache'[s] = mem'[s]
              /\ ret'[s].rr = "ok" =>
                    /\ enabled
                    /\ file' = [kind |-> "json", val |-> mem'[s]]
                    /\ Len(mem'[s].missions) = Len(ws'.rows)
                    /\ \A i \in 1..Len(ws'.rows) : \A k \in HeaderSet :
                          (k # "id" \/ ws'.rows[i].id # EmptyId)
                              => mem'[s].missions[i][k] = ws'.rows[i][k]
              /\ ret'[s].lr =>
                    /\ file' = file
                    /\ IF file.kind = "json" THEN mem'[s] = file.val
                       ELSE EmptyDocument(mem'[s])]_vars

\* A load of the local file that returned missions: the session made them
\* before, so its cache held a document when load() read the file.
C2_Witness ==
    \E s \in Sessions :
        /\ ~enabled
        /\ pc[s] = "loaded" /\ ret[s].op = "load" /\ ret[s].lr
        /\ mem[s].missions # <<>>

\* C3. updateMission on an id that a mission has changes, of the whole
\* document, the supplied fields that are not None of one mission with that
\* id and that mission's updated_at, and the document's updated_at; the list
\* keeps its order and length, the document is persisted (file, cache and,
\* when the remote write goes through, the sheet) and the result is true.
C3_UpdateFrame ==
    [][\A s \in Sessions :
          (HandlerStep(s, {"update"}) /\ IsDoc(mem[s]) /\ ret'[s].id \in Ids(mem[s])) =>
              LET f == ret'[s].fields
                  old == mem[s].missions
                  new == mem'[s].missions
              IN  /\ ret'[s].ok
                  /\ ret'[s].exc = "none"
                  /\ Len(new) = Len(old)
                  /\ \E i \in 1..Len(old) :
                        /\ old[i].id = ret'[s].id
                        /\ \A j \in 1..Len(old) : j # i => new[j] = old[j]
                        /\ \A k \in HeaderSet \ {"updated_at"} :
                              new[i][k] = IF k \in DOMAIN f /\ Len(f[k]) = 1
                                          THEN f[k][1] ELSE old[i][k]
                        /\ new[i].updated_at > clock
                        /\ new[i].updated_at <= mem'[s].updated_at
                  /\ mem'[s].version = mem[s].version
                  /\ IsDoc(mem'[s])
                  /\ mem'[s].updated_at = clock'
                  /\ file' = [kind |-> "json", val |-> mem'[s]]
                  /\ cache'[s] = mem'[s]
                  /\ ret'[s].rw = "ok" =>
                        (ws' = [first |-> "headers", rows |-> new]
                         /\ meta' = mem'[s].updated_at)]_vars

C3_Witness ==
    \E s \in Sessions :
        /\ ret[s].op = "update" /\ ret[s].ok /\ pc[s] = "start"
        /\ "assigned_to" \in DOMAIN ret[s].fields
        /\ IsNone(ret[s].fields.assigned_to)
        /\ Len(mem[s].missions) = 2
        /\ \E i \in 1..2 :
              /\ mem[s].missions[i].status = "Failed"
              /\ mem[s].missions[i].assigned_to = "Durnan"
              /\ mem[s].missions[3 - i].status # "Failed"

\* C4. updateMission and deleteMission on an id that no mission of the
\* document has return false and change nothing: the document, the cache, the
\* local file and the worksheets stay as they are and nothing is written.
C4_NotFoundNoOp ==
    [][\A s \in Sessions :
          (/\ HandlerStep(s, {"update", "delete"})
           /\ IsDoc(mem[s])
           /\ ret'[s].id \notin Ids(mem[s])) =>
              /\ ~ret'[s].ok
              /\ ret'[s].exc = "none"
              /\ ret'[s].rw = "skip"
              /\ ~ret'[s].lw
              /\ mem' = mem
              /\ cache' = cache
              /\ file' = file
              /\ ws' = ws
              /\ meta' = meta
              /\ clock' = clock]_vars

C4_Witness ==
    \E s \in Sessions :
        /\ ret[s].op = "delete" /\ ~ret[s].ok /\ ret[s].id \in MissingIds
        /\ pc[s] = "start"
        /\ mem[s].missions # <<>>
        /\ file.val.missions = mem[s].missions

\* C5 as claimed. deleteMission on an id that a mission of the document has
\* removes exactly one record, the others staying in their order, and returns
\* true; the document is persisted if and only if a record was removed.
C5_DeleteExactlyOne ==
    [][\A s \in Sessions :
          (HandlerStep(s, {"delete"}) /\ IsDoc(mem[s])) =>
              LET old == mem[s].missions
                  new == mem'[s].missions
              IN  /\ ret'[s].lw = ret'[s].ok
                  /\ ret'[s].ok = (new # old)
                  /\ ret'[s].id \in Ids(mem[s]) =>
                        /\ ret'[s].ok
                        /\ Len(new) = Len(old) - 1
                        /\ \E i \in 1..Len(old) :
                              /\ old[i].id = ret'[s].id
                              /\ new = SubSeq(old, 1, i - 1) \o SubSeq(old, i + 1, Len(old))
                        /\ file' = [kind |-> "json", val |-> mem'[s]]]_vars

\* C6 as claimed. createMission appends a mission with an id no mission of the
\* document has, status Available, assigned_to and notes empty and created_at
\* equal to updated_at; the document is persisted and cached; and the load()
\* after it returns a document with that mission (exactly that one mission,
\* Available, when the store was empty).
C6_CreateThenLoad ==
    [][\A s \in Sessions :
          /\ (/\ HandlerStep(s, {"create"}) /\ IsDoc(mem[s])
              /\ ~AddMissionDisabled(ret'[s].fields.title)) =>
                LET old == mem[s].missions
                    new == mem'[s].missions
                    m == new[Len(new)]
                IN  /\ ret'[s].ok
                    /\ new = Append(old, m)
                    /\ m.id = ret'[s].id
                    /\ m.id \notin Ids(mem[s])
                    /\ m.status = "Available"
                    /\ m.assigned_to = "" /\ m.notes = ""
                    /\ m.created_at = m.updated_at
                    /\ file' = [kind |-> "json", val |-> mem'[s]]
                    /\ cache'[s] = mem'[s]
          /\ (LoadStep(s) /\ ret[s].op = "create" /\ ret[s].ok) =>
                /\ ret[s].id \in Ids(mem'[s])
                /\ Len(mem[s].missions) = 1 =>
                      (Len(mem'[s].missions) = 1
                       /\ mem'[s].missions[1].status = "Available")]_vars

\* C7 as claimed. An uploaded file that is not a JSON object with a list under
\* "missions" is rejected and changes nothing.
C7_ImportRejects ==
    [][\A s \in Sessions :
          (HandlerStep(s, {"import"}) /\ ret'[s].shape # "doc") =>
              /\ ~ret'[s].ok
              /\ ret'[s].exc = "none"
              /\ mem' = mem
              /\ cache' = cache
              /\ file' = file
              /\ ws' = ws
              /\ meta' = meta]_vars

\* C8. A session that saves a mutation of the snapshot it loaded overwrites
\* the persisted document with its own, without an error: what is persisted
\* afterwards is the session's document, made of the missions of its snapshot
\* and of its own change, so a mission another session persisted in between
\* is not in it.
C8_LastWriterWins ==
    [][\A s \in Sessions :
          (/\ HandlerStep(s, {"create", "update", "delete"})
           /\ IsDoc(mem[s])
           /\ \/ (ret'[s].op = "create" /\ ~AddMissionDisabled(ret'[s].fields.title))
              \/ (ret'[s].op # "create" /\ ret'[s].id \in Ids(mem[s]))) =>
              /\ ret'[s].ok
              /\ ret'[s].exc = "none"
              /\ file' = [kind |-> "json", val |-> mem'[s]]
              /\ enabled => (/\ ret'[s].rw = "ok"
                             /\ ws' = [first |-> "headers", rows |-> mem'[s].missions]
                             /\ meta' = mem'[s].updated_at)
              /\ \A i \in 1..Len(file'.val.missions) :
                    LET m == file'.val.missions[i] IN
                    \/ m.id = ret'[s].id
                    \/ \E j \in 1..Len(mem[s].missions) : mem[s].missions[j] = m
              /\ \A id \in Ids(file.val) \ Ids(mem[s]) : id \notin Ids(file'.val)]_vars

\* A made a mission and persisted it; B, whose snapshot is older, made
\* another: the file holds B's mission and not A's.
C8_Witness ==
    /\ ret["A"].op = "create" /\ ret["A"].ok /\ pc["A"] = "start"
    /\ ret["B"].op = "create" /\ ret["B"].ok /\ pc["B"] = "start"
    /\ ret["A"].id \notin Ids(file.val)
    /\ ret["B"].id \in Ids(file.val)
    /\ ret["A"].id \in Ids(mem["A"])

\* C9 as claimed. The updated_at of a document is at least the updated_at of
\* each of its missions, in the run's db, in the cache and in the file, and a
\* persisted write stamps the document with the time of the write.
StampCovers(d) ==
    IsDoc(d) => \A i \in 1..Len(d.missions) : d.missions[i].updated_at <= d.updated_at

C9_DocStampCovers ==
    /\ \A s \in Sessions : StampCovers(mem[s]) /\ StampCovers(cache[s])
    /\ StampCovers(file.val)
    /\ \A s \in Sessions :
          (ret[s].op \in Mutations /\ ret[s].lw) => cache[s].updated_at = clock

\* C10 as claimed. A load that reads the local file returns a document with a
\* missions list, and the empty document when the file is absent, does not
\* parse or does not hold such a document.
C10_LocalReadWellFormed ==
    \A s \in Sessions :
        (pc[s] = "loaded" /\ ret[s].op = "load" /\ ret[s].lr) =>
            /\ ret[s].exc = "none"
            /\ IsDoc(mem[s])
            /\ (file.kind # "json" \/ ~IsDoc(file.val)) => EmptyDocument(mem[s])

\* C11. After a create, update, delete or restore that went through, the
\* session cache holds the document that was persisted: it is what the local
\* file holds, it is the run's document after a create, update or delete, and
\* when the remote write went through the sheet holds one row per mission of
\* it and the Meta sheet its updated_at.
C11_CacheIsPersisted ==
    \A s \in Sessions :
        (pc[s] = "start" /\ ret[s].op \in Mutations /\ ret[s].ok) =>
            /\ ret[s].lw
            /\ cache[s] # NoDoc
            /\ file = [kind |-> "json", val |-> cache[s]]
            /\ cache[s].updated_at = clock
            /\ ret[s].op # "import" => cache[s] = mem[s]
            /\ ret[s].rw = "ok" =>
                  /\ IsDoc(cache[s])
                  /\ ws = [first |-> "headers", rows |-> RowsOf(cache[s].missions)]
                  /\ meta = cache[s].updated_at

\* A restore went through, the remote write too: the cache holds the two
\* uploaded missions, not the run's document.
C11_Witness ==
    \E s \in Sessions :
        /\ pc[s] = "start" /\ ret[s].op = "import" /\ ret[s].ok /\ ret[s].rw = "ok"
        /\ Len(cache[s].missions) = 2
        /\ mem[s].missions # cache[s].missions

C14_RoundTrip ==
    [][\A s \in Sessions :
          (HandlerStep(s, {"import"}) /\ ret'[s].fields.uploaded = Export(s)) =>
              /\ Loads(Export(s)) = mem[s]
              /\ ret'[s].ok
              /\ ret'[s].exc = "none"
              /\ cache'[s] = [mem[s] EXCEPT !.updated_at = cache'[s].updated_at]
              /\ file' = Dumps(cache'[s])
              /\ (ret'[s].rw = "ok" /\ IsDoc(mem[s])) =>
                    ws' = [first |-> "headers", rows |-> RowsOf(mem[s].missions)]]_vars

\* The export of a document with two missions made by the store, one of them
\* updated, was restored: the cache holds them with a later stamp.
C14_Witness ==
    \E s \in Sessions :
        /\ pc[s] = "start" /\ ret[s].op = "import" /\ ret[s].ok
        /\ IsDoc(mem[s]) /\ Len(mem[s].missions) = 2
        /\ Ids(mem[s]) \cap ForeignIds = {}
        /\ \E i \in 1..2 : mem[s].missions[i].status # "Available"
        /\ Loads(ret[s].fields.uploaded) = mem[s]
        /\ cache[s].missions = mem[s].missions
        /\ cache[s].updated_at > mem[s].updated_at

\* C15 as claimed. A mission keeps its id and its created_at: an update
\* changes neither of any mission of the list, and a load returns a mission
\* of the document the session held, one equal to it in every other field,
\* under the id it had, and a mission with the id of one the session held
\* with its created_at.
SameButId(m, n) ==
    \A k \in HeaderSet \ {"id"} : m[k] = n[k]

C15_IdentityStable ==
    [][\A s \in Sessions :
          /\ (HandlerStep(s, {"update"}) /\ IsDoc(mem[s])) =>
                /\ Len(mem'[s].missions) = Len(mem[s].missions)
                /\ \A i \in 1..Len(mem[s].missions) :
                      /\ mem'[s].missions[i].id = mem[s].missions[i].id
                      /\ mem'[s].missions[i].created_at = mem[s].missions[i].created_at
          /\ (LoadStep(s) /\ IsDoc(mem[s]) /\ IsDoc(mem'[s]) /\ ret[s].op # "import") =>
                \A i \in 1..Len(mem[s].missions) :
                    /\ \A j \in 1..Len(mem'[s].missions) :
                          mem'[s].missions[j].id = mem[s].missions[i].id
                            => mem'[s].missions[j].created_at = mem[s].missions[i].created_at
                    /\ (i <= Len(mem'[s].missions)
                        /\ SameButId(mem'[s].missions[i], mem[s].missions[i]))
                          => mem'[s].missions[i].id = mem[s].missions[i].id]_vars

\* C16 as claimed. A mutation whose remote write threw and whose local write
\* went through is not lost: the load() after it returns a document with the
\* mission list that the mutation persisted, whether the remote read of that
\* load throws or goes through.
C16_LocalChangeKept ==
    [][\A s \in Sessions :
          (/\ LoadStep(s)
           /\ ret[s].op \in Mutations /\ ret[s].ok
           /\ ret[s].rw = "throw" /\ ret[s].lw
           /\ IsDoc(cache[s])) =>
              /\ IsDoc(mem'[s])
              /\ mem'[s].missions = cache[s].missions]_vars

\* C17. A remote read of a sheet whose first row is not HEADERS clears the
\* sheet and writes the header alone: the read that goes through returns a
\* document without missions, whatever rows there were. With HEADERS as the
\* first row no row is cleared and the read returns one mission per row, cell
\* for cell, a row with an empty id cell getting an id that no row has and
\* that was not handed out before.
C17_HeaderMismatchClears ==
    [][\A s \in Sessions :
          (LoadStep(s) /\ enabled) =>
              /\ (ws.first # "headers" /\ ret'[s].rr = "ok") =>
                    /\ ws' = WsCleared
                    /\ IsDoc(mem'[s])
                    /\ mem'[s].missions = <<>>
                    /\ file' = Dumps(mem'[s])
              /\ ws.first # "headers" => (ws'.rows = <<>> \/ ws' = ws)
              /\ ws.first = "headers" => ws' = ws
              /\ (ws.first = "headers" /\ ret'[s].rr = "ok") =>
                    /\ Len(mem'[s].missions) = Len(ws.rows)
                    /\ \A i \in 1..Len(ws.rows) :
                          LET m == mem'[s].missions[i] IN
                          /\ \A k \in HeaderSet \ {"id"} : m[k] = ws.rows[i][k]
                          /\ IF ws.rows[i].id # EmptyId THEN m.id = ws.rows[i].id
                             ELSE /\ m.id # EmptyId
                                  /\ m.id >= nextId /\ m.id < nextId'
                                  /\ \A j \in 1..Len(ws.rows) :
                                        /\ ws.rows[j].id # m.id
                                        /\ j # i => mem'[s].missions[j].id # m.id]_vars

\* The first load of a sheet saved at time 0 whose first row is not HEADERS:
\* its row is gone and the document read is empty.
C17_Witness ==
    \E s \in Sessions :
        /\ enabled
        /\ pc[s] = "loaded" /\ ret[s].op = "load" /\ ret[s].rr = "ok"
        /\ clock = 1 /\ meta = 0
        /\ ws = WsCleared
        /\ mem[s] = Doc(1, 0, <<>>)
        /\ file = Dumps(mem[s])

\* C18 as claimed. The local write is an atomic replace: when the process
\* dies in the local write of a mutation the file holds the document it held
\* before or the whole new document, and the load() after it returns what the
\* file holds, not the empty document in place of a file that cannot be read.
C18_AtomicReplace ==
    [][\A s \in Sessions :
          /\ (HandlerStep(s, Mutations) /\ ret'[s].exc = "crash") =>
                \/ file' = file
                \/ /\ file'.kind = "json"
                   /\ IsDict(file'.val)
                   /\ file'.val.updated_at = clock'
          /\ (LoadStep(s) /\ ret[s].exc = "crash") =>
                /\ file.kind # "garbage"
                /\ file.kind = "json" => mem'[s] = file.val]_vars

\* C19 as claimed. The ids of the missions of a document are pairwise
\* distinct, in the run's document, in the session cache, in the local file
\* and among the rows of the sheet that have an id.
DistinctIds(missions) ==
    \A i, j \in 1..Len(missions) :
        (i # j /\ missions[i].id # EmptyId) => missions[i].id # missions[j].id

C19_DistinctIds ==
    /\ \A s \in Sessions :
          /\ IsDoc(mem[s]) => DistinctIds(mem[s].missions)
          /\ IsDoc(cache[s]) => DistinctIds(cache[s].missions)
    /\ IsDoc(file.val) => DistinctIds(file.val.missions)
    /\ DistinctIds(ws.rows)

\* C20 as claimed. The status of every mission of every document is one of
\* STATUSES, in the run's document, the session cache and the local file; a
\* created mission is Available, and an update that passes a status leaves the
\* mission with that status, whatever status it had.
StatusesIn(d) ==
    IsDoc(d) => \A i \in 1..Len(d.missions) : d.missions[i].status \in STATUSES

C20_StatusInSet ==
    /\ [](/\ \A s \in Sessions : StatusesIn(mem[s]) /\ StatusesIn(cache[s])
          /\ StatusesIn(file.val))
    /\ [][\A s \in Sessions :
            /\ (HandlerStep(s, {"create"}) /\ ret'[s].ok) =>
                  mem'[s].missions[Len(mem'[s].missions)].status = "Available"
            /\ (HandlerStep(s, {"update"}) /\ ret'[s].ok) =>
                  \E i \in 1..Len(mem'[s].missions) :
                      /\ mem'[s].missions[i].id = ret'[s].id
                      /\ mem'[s].missions[i].status = ret'[s].fields.status[1]
                      /\ ret'[s].fields.status[1] \in STATUSES]_vars

====
